---------------------------- MODULE Spec2Model ----------------------------
(***************************************************************************)
(* Model of price_monitor.py: one run of main() scrapes every configured   *)
(* site, diffs the capture against the site's history file, saves the new  *)
(* capture and finally sends one Telegram message.                         *)
(*                                                                         *)
(* Texts (raw names, raw prices, site names) are sequences of one-letter   *)
(* strings so that strip(), replace() and the price clean-up are computed  *)
(* letter by letter.  A price is an exact decimal [n, d] standing for n/d  *)
(* with d a power of ten; a delta is a number of hundredths of a percent,  *)
(* or one of the IEEE values inf / nan that pandas produces when the       *)
(* previous price is 0.                                                    *)
(***************************************************************************)
EXTENDS Integers, Sequences, FiniteSets, TLC

VARIABLES
    sites,        \* SITES: the configured site names, in config.json order
    threshold,    \* THRESHOLD, in hundredths of a percent
    fs,           \* history/: file name -> content of the history file
    run,          \* number of the current invocation of main()
    pc,           \* position of main(): scrape, process, notify, done, aborted, crashed
    i,            \* index in SITES of the site the for loop is at
    df,           \* the frame returned by scrape_site for the current site
    prev,         \* the frame read from the history file of the last processed site
    changed,      \* the rows selected for the last processed site
    all_changes,  \* the list of non-empty per-site frames of changes
    sent,         \* number of bot.send_message calls of this run
    text,         \* the lines of the message sent
    err,          \* the exception that ended the run, "none" otherwise
    timedOut,     \* scrape_site: page.goto raised and was swallowed
    written,      \* history: per site, the capture this run has saved for it
    earlier,      \* history: per site, the capture the most recent earlier run saved for it
    rawText,      \* the price text handed to the price expression
    parsed        \* what the price expression made of rawText

vars == <<sites, threshold, fs, run, pc, i, df, prev, changed, all_changes,
          sent, text, err, timedOut, written, earlier, rawText, parsed>>

---------------------------------------------------------------------------
(* Bounds of the model.                                                    *)

MaxItems == 2

MaxRuns == 2

MaxLen == 3

---------------------------------------------------------------------------
(* Texts.                                                                  *)

Digits == {"0", "1", "2", "3", "4", "5", "6", "7", "8", "9"}

DigitVal(ch) ==
    CASE ch = "0" -> 0 [] ch = "1" -> 1 [] ch = "2" -> 2 [] ch = "3" -> 3
      [] ch = "4" -> 4 [] ch = "5" -> 5 [] ch = "6" -> 6 [] ch = "7" -> 7
      [] ch = "8" -> 8 [] ch = "9" -> 9

SeqsUpTo(S, n) == UNION {[1..k -> S] : k \in 0..n}

RECURSIVE LStrip(_)
LStrip(s) == IF s # <<>> /\ Head(s) = " " THEN LStrip(Tail(s)) ELSE s

RECURSIVE RStrip(_)
RStrip(s) ==
    IF s # <<>> /\ s[Len(s)] = " " THEN RStrip(SubSeq(s, 1, Len(s) - 1)) ELSE s

\* n.strip()
Strip(s) == RStrip(LStrip(s))

\* site['name'].replace(' ', '_')
HistKey(name) == [k \in DOMAIN name |-> IF name[k] = " " THEN "_" ELSE name[k]]

---------------------------------------------------------------------------
(* Prices.                                                                 *)

RECURSIVE Pow10(_)
Pow10(k) == IF k = 0 THEN 1 ELSE 10 * Pow10(k - 1)

RECURSIVE Norm(_, _)
Norm(n, d) ==
    IF d > 1 /\ n % 10 = 0 THEN Norm(n \div 10, d \div 10) ELSE [n |-> n, d |-> d]

Zero == [n |-> 0, d |-> 1]

RECURSIVE DigitsToNat(_)
DigitsToNat(s) ==
    IF s = <<>> THEN 0
    ELSE 10 * DigitsToNat(SubSeq(s, 1, Len(s) - 1)) + DigitVal(s[Len(s)])

IsKept(ch) == ch \in Digits \/ ch \in {".", ","}

\* "".join(ch for ch in txt if ch.isdigit() or ch in ".,").replace(",", ".")
Clean(txt) ==
    LET kept == SelectSeq(txt, IsKept)
    IN  [k \in DOMAIN kept |-> IF kept[k] = "," THEN "." ELSE kept[k]]

IsDot(ch) == ch = "."

IsDigit(ch) == ch \in Digits

\* float(s) of a string of digits and dots: Python accepts "12", "1.", ".5",
\* "1.5" and raises ValueError for ".", "1.2.3", "..".
FloatOf(s) ==
    LET dots == Len(SelectSeq(s, IsDot))
        digs == SelectSeq(s, IsDigit)
        dotAt == CHOOSE k \in DOMAIN s : s[k] = "."
        frac == IF dots = 0 THEN 0 ELSE Len(s) - dotAt
    IN  IF dots > 1 \/ digs = <<>>
        THEN [ok |-> FALSE, val |-> Zero]
        ELSE [ok |-> TRUE, val |-> Norm(DigitsToNat(digs), Pow10(frac))]

\* float(<cleaned text> or 0)
ParsePrice(txt) ==
    LET s == Clean(txt)
    IN  IF s = <<>> THEN [ok |-> TRUE, val |-> Zero] ELSE FloatOf(s)


---------------------------------------------------------------------------
(* Frames.  A frame is its set of columns and its rows; a history file is  *)
(* absent, a JSON array of {name, price} objects, or the partial text left *)
(* by a write that did not finish.                                         *)

Frame(rows) == [loaded |-> TRUE, columns |-> {"name", "price"}, rows |-> rows]

NoFrame == [loaded |-> FALSE, columns |-> {}, rows |-> <<>>]

Absent == [state |-> "absent", items |-> <<>>]

Partial == [state |-> "partial", items |-> <<>>]

\* df.to_json(orient="records"): one object per row; a frame without rows
\* becomes the array [] and its columns are not written.  Prices are written
\* with up to ten decimals, more than any price of this model has.
ToJson(frame) == [state |-> "json", items |-> frame.rows]

\* pd.read_json: the columns are the keys of the objects, so [] gives a frame
\* with no columns at all.
ReadJson(file) ==
    [loaded |-> TRUE,
     columns |-> IF file.items = <<>> THEN {} ELSE {"name", "price"},
     rows |-> file.items]

SaveKeepOld(files, key, frame) ==
    IF files[key].state = "absent" THEN [files EXCEPT ![key] = ToJson(frame)] ELSE files

\* df.to_json(hist_file, ...)
SaveSnapshot(files, key, frame) == [files EXCEPT ![key] = ToJson(frame)]

---------------------------------------------------------------------------
(* The diff: merge, delta, selection.                                      *)

Abs(x) == IF x < 0 THEN -x ELSE x

\* numpy's round: to the nearest, ties to even.  num/den with den > 0.
RoundHalfEven(num, den) ==
    LET a == Abs(num)
        q == a \div den
        r == a % den
        up == (2 * r > den) \/ (2 * r = den /\ q % 2 = 1)
        m == IF up THEN q + 1 ELSE q
    IN  IF num < 0 THEN -m ELSE m

FNum(p) == [nan |-> FALSE, val |-> p]

FNaN == [nan |-> TRUE, val |-> Zero]

DNum(v) == [kind |-> "num", v |-> v]

DInf == [kind |-> "inf", v |-> 0]

DNaN == [kind |-> "nan", v |-> 0]

\* ((price - price_old) / price_old * 100).round(2), in hundredths of a
\* percent.  Prices are never negative, so x/0 is +inf for x > 0 and nan for
\* x = 0; a missing price_old (no match) gives nan.
Delta(price, price_old) ==
    IF price_old.nan THEN DNaN
    ELSE IF price_old.val.n = 0
         THEN IF price.n = 0 THEN DNaN ELSE DInf
         ELSE DNum(RoundHalfEven(
                  10000 * (price.n * price_old.val.d - price_old.val.n * price.d),
                  price_old.val.n * price.d))

Idx(n) == [k \in 1..n |-> k]

MatchesAny(name, prevRows) == Idx(Len(prevRows))

\* the rows of prev whose name equals name, in prev's order
Matches(name, prevRows) ==
    SelectSeq(Idx(Len(prevRows)), LAMBDA j : prevRows[j].name = name)

\* the rows the left join makes of the current row ci
RowsFor(ci, dfRows, prevRows) ==
    LET m == Matches(dfRows[ci].name, prevRows)
        c == dfRows[ci]
    IN  IF m = <<>>
        THEN << [cur |-> ci, old |-> 0, name |-> c.name, price |-> c.price,
                 price_old |-> FNaN] >>
        ELSE [k \in DOMAIN m |->
                 [cur |-> ci, old |-> m[k], name |-> c.name, price |-> c.price,
                  price_old |-> FNum(prevRows[m[k]].price)]]

RECURSIVE MergeFrom(_, _, _)
MergeFrom(ci, dfRows, prevRows) ==
    IF ci > Len(dfRows) THEN <<>>
    ELSE RowsFor(ci, dfRows, prevRows) \o MergeFrom(ci + 1, dfRows, prevRows)

\* df.merge(prev, on="name", how="left", suffixes=("", "_old")) with the delta
\* column: left order is kept, one row per matching row of prev.  cur and old
\* are the positions of the two merged items.
Merge(dfRows, prevRows) ==
    LET rows == MergeFrom(1, dfRows, prevRows)
    IN  [k \in DOMAIN rows |->
            [cur |-> rows[k].cur, old |-> rows[k].old, name |-> rows[k].name,
             price |-> rows[k].price, price_old |-> rows[k].price_old,
             delta |-> Delta(rows[k].price, rows[k].price_old)]]

SelectedStrict(delta, thr) ==
    delta.kind = "inf" \/ (delta.kind = "num" /\ Abs(delta.v) > thr)

\* merged["delta"].abs() >= THRESHOLD: false for nan, true for inf
Selected(delta, thr) ==
    delta.kind = "inf" \/ (delta.kind = "num" /\ Abs(delta.v) >= thr)

\* .dropna(): rows with a missing value in any column go
HasNa(row) == row.price_old.nan \/ row.delta.kind = "nan"

\* merged[merged["delta"].abs() >= THRESHOLD].dropna(), then the site column
\* and the column selection
Changed(site, dfRows, prevRows, thr) ==
    LET kept == SelectSeq(Merge(dfRows, prevRows),
                          LAMBDA r : Selected(r.delta, thr) /\ ~HasNa(r))
    IN  [k \in DOMAIN kept |->
            [site |-> site, cur |-> kept[k].cur, old |-> kept[k].old,
             name |-> kept[k].name, price_old |-> kept[k].price_old.val,
             price |-> kept[k].price, delta |-> kept[k].delta]]

AppendAlways(all, frame) == Append(all, frame)

AppendFirst(all, frame) == IF frame = <<>> THEN all ELSE <<frame>> \o all

\* if not changed.empty: all_changes.append(...)
AppendChanges(all, frame) == IF frame = <<>> THEN all ELSE Append(all, frame)

RECURSIVE Flatten(_)
Flatten(all) == IF all = <<>> THEN <<>> ELSE Head(all) \o Flatten(Tail(all))

\* one line of the message: prices :.2f (in hundredths), delta :+.1f (in tenths)
Line(r) ==
    [site |-> r.site, name |-> r.name,
     price_old |-> RoundHalfEven(r.price_old.n * 100, r.price_old.d),
     price |-> RoundHalfEven(r.price.n * 100, r.price.d),
     delta |-> IF r.delta.kind = "num"
               THEN DNum(RoundHalfEven(r.delta.v, 10)) ELSE r.delta]

\* the lines of the text built from all_changes
Lines(all) == LET recs == Flatten(all) IN [k \in DOMAIN recs |-> Line(recs[k])]

---------------------------------------------------------------------------
(* The inputs: configurations, page contents, thresholds.                  *)

SiteA == <<"s", " ", "1">>

SiteB == <<"s", "_", "1">>

SiteC == <<"s", "2">>

\* config.json: two sites whose names differ in a space versus an underscore,
\* or two sites with unrelated names
Configs == {<<SiteA, SiteB>>, <<SiteA, SiteC>>}

ConfigsDiff == {<<SiteA>>}

Keys == {HistKey(n) : n \in {SiteA, SiteB, SiteC}}

NameTexts == {<<"A">>}

PriceTexts == {<<"4">>, <<"5">>}

NameTextsDiff == {<<"A">>, <<"B", " ">>}

PriceTextsDiff == {<<"0">>, <<"4">>, <<"5", " ", "R">>, <<".">>}

\* THRESHOLD (default "1"), in hundredths of a percent
Thresholds == {100}

ThresholdsDiff == {2000, 2500}

Alphabet == {"0", "1", ".", ",", "x"}

---------------------------------------------------------------------------
(* The run.                                                                *)

Todo == [state |-> "todo", val |-> Zero]

InitWith(configs, thresholds) ==
    /\ sites \in configs
    /\ threshold \in thresholds
    /\ fs = [k \in Keys |-> Absent]
    /\ run = 1
    /\ pc = "scrape"
    /\ i = 1
    /\ df = NoFrame
    /\ prev = NoFrame
    /\ changed = <<>>
    /\ all_changes = <<>>
    /\ sent = 0
    /\ text = <<>>
    /\ err = "none"
    /\ timedOut = FALSE
    /\ written = [k \in DOMAIN sites |-> Absent]
    /\ earlier = [k \in DOMAIN sites |-> Absent]
    /\ rawText = <<>>
    /\ parsed = Todo

Init == InitWith(Configs, Thresholds)

InitDiff == InitWith(ConfigsDiff, ThresholdsDiff)

Abort(e) ==
    /\ pc' = "aborted"
    /\ err' = e

\* scrape_site: load the page (a timeout is swallowed and changes nothing but
\* what the page holds), read the two lists of texts, strip the names, parse
\* the prices, build the frame.  float() raises on a text it cannot read and
\* the DataFrame constructor raises when the two lists differ in length;
\* main() catches neither.
ScrapeSite(nameTexts, priceTexts) ==
    /\ pc = "scrape"
    /\ \E raw_names \in SeqsUpTo(nameTexts, MaxItems),
          raw_prices \in SeqsUpTo(priceTexts, MaxItems) :
          LET names == [k \in DOMAIN raw_names |-> Strip(raw_names[k])]
              prices == [k \in DOMAIN raw_prices |-> ParsePrice(raw_prices[k])]
          IN  IF \E k \in DOMAIN prices : ~prices[k].ok
              THEN /\ Abort("ValueError: float")
                   /\ timedOut' \in BOOLEAN
                   /\ UNCHANGED df
              ELSE IF Len(names) # Len(prices)
              THEN /\ Abort("ValueError: length")
                   /\ timedOut' \in BOOLEAN
                   /\ UNCHANGED df
              ELSE /\ df' = Frame([k \in DOMAIN names |->
                                     [name |-> names[k], price |-> prices[k].val]])
                   /\ pc' = "process"
                   /\ timedOut' = FALSE
                   /\ UNCHANGED err
    /\ UNCHANGED <<sites, threshold, fs, run, i, prev, changed, all_changes, sent,
                   text, written, earlier, rawText, parsed>>

\* the save that ends the loop body, and the step to the next site
SaveAndAdvance(key) ==
    /\ fs' = SaveSnapshot(fs, key, df)
    /\ written' = [written EXCEPT ![i] = ToJson(df)]
    /\ i' = i + 1
    /\ pc' = IF i = Len(sites) THEN "notify" ELSE "scrape"
    /\ UNCHANGED err

\* the loop body after scrape_site: the history file is read when it exists,
\* the changes are selected and appended, the capture is saved.  read_json
\* raises on a partial file; a file holding [] reads as a frame without the
\* name column and merge(on="name") raises KeyError.  A capture without rows
\* merges to a frame without rows and selects nothing.
ProcessSite ==
    /\ pc = "process"
    /\ LET key == HistKey(sites[i])
           file == fs[key]
           p == ReadJson(file)
       IN  IF file.state = "absent"
           THEN /\ prev' = NoFrame
                /\ changed' = <<>>
                /\ UNCHANGED all_changes
                /\ SaveAndAdvance(key)
           ELSE IF file.state = "partial"
           THEN /\ Abort("ValueError: read_json")
                /\ UNCHANGED <<prev, changed, all_changes, fs, written, i>>
           ELSE IF "name" \notin p.columns
           THEN /\ Abort("KeyError: name")
                /\ UNCHANGED <<prev, changed, all_changes, fs, written, i>>
           ELSE /\ prev' = p
                /\ changed' = Changed(sites[i], df.rows, p.rows, threshold)
                /\ all_changes' = AppendChanges(all_changes, changed')
                /\ SaveAndAdvance(key)
    /\ UNCHANGED <<sites, threshold, run, df, sent, text, timedOut, earlier,
                   rawText, parsed>>

\* the process dies while to_json is writing: the file was opened for writing
\* and holds part of the new text
CrashInSave ==
    /\ pc = "process"
    /\ LET key == HistKey(sites[i])
           file == fs[key]
       IN  /\ \/ file.state = "absent"
              \/ file.state = "json" /\ "name" \in ReadJson(file).columns
           /\ fs' = [fs EXCEPT ![key] = Partial]
    /\ pc' = "crashed"
    /\ UNCHANGED <<sites, threshold, run, i, df, prev, changed, all_changes, sent,
                   text, err, timedOut, written, earlier, rawText, parsed>>

\* if all_changes: build the text and send it
Notify ==
    /\ pc = "notify"
    /\ IF all_changes # <<>>
       THEN /\ text' = Lines(all_changes)
            /\ sent' = sent + 1
       ELSE UNCHANGED <<text, sent>>
    /\ pc' = "done"
    /\ UNCHANGED <<sites, threshold, fs, run, i, df, prev, changed, all_changes,
                   err, timedOut, written, earlier, rawText, parsed>>

\* the next scheduled invocation: a new process, the history files stay
NextRun ==
    /\ pc \in {"done", "aborted", "crashed"}
    /\ run < MaxRuns
    /\ run' = run + 1
    /\ pc' = "scrape"
    /\ i' = 1
    /\ df' = NoFrame
    /\ prev' = NoFrame
    /\ changed' = <<>>
    /\ all_changes' = <<>>
    /\ sent' = 0
    /\ text' = <<>>
    /\ err' = "none"
    /\ timedOut' = FALSE
    /\ earlier' = [k \in DOMAIN sites |->
                      IF written[k].state = "json" THEN written[k] ELSE earlier[k]]
    /\ written' = [k \in DOMAIN sites |-> Absent]
    /\ UNCHANGED <<sites, threshold, fs, rawText, parsed>>

Next ==
    \/ ScrapeSite(NameTexts, PriceTexts)
    \/ ProcessSite
    \/ CrashInSave
    \/ Notify
    \/ NextRun

Spec == Init /\ [][Next]_vars

NextDiff ==
    \/ ScrapeSite(NameTextsDiff, PriceTextsDiff)
    \/ ProcessSite
    \/ CrashInSave
    \/ Notify
    \/ NextRun

SpecDiff == InitDiff /\ [][NextDiff]_vars

---------------------------------------------------------------------------
(* The price expression alone, on every text of up to MaxLen letters.      *)

InitParse ==
    /\ rawText \in SeqsUpTo(Alphabet, MaxLen)
    /\ parsed = Todo
    /\ sites = <<SiteA>>
    /\ threshold = 100
    /\ fs = [k \in Keys |-> Absent]
    /\ run = 1
    /\ pc = "scrape"
    /\ i = 1
    /\ df = NoFrame
    /\ prev = NoFrame
    /\ changed = <<>>
    /\ all_changes = <<>>
    /\ sent = 0
    /\ text = <<>>
    /\ err = "none"
    /\ timedOut = FALSE
    /\ written = <<Absent>>
    /\ earlier = <<Absent>>

ParseStep ==
    /\ parsed.state = "todo"
    /\ parsed' = LET r == ParsePrice(rawText)
                 IN  [state |-> IF r.ok THEN "value" ELSE "error", val |-> r.val]
    /\ UNCHANGED <<sites, threshold, fs, run, pc, i, df, prev, changed, all_changes,
                   sent, text, err, timedOut, written, earlier, rawText>>

NextParse == ParseStep

SpecParse == InitParse /\ [][NextParse]_vars

---------------------------------------------------------------------------
(* Properties.                                                             *)

\* df, prev and changed are those of site i - 1, whose loop body has finished
Processed == i > 1 /\ pc \in {"scrape", "notify", "done"}

Report == Flatten(all_changes)

SiteIdx(s) == CHOOSE k \in DOMAIN sites : sites[k] = s

Emitted(ci, pj) == \E k \in DOMAIN changed : changed[k].cur = ci /\ changed[k].old = pj

\* C1: a message is sent only once every configured site has been processed
\* and saved; a run sends at most one; a completed run has sent exactly one
\* when the report holds a change record and none when it holds no record.
C1_OneMessageAfterAllSites ==
    /\ sent <= 1
    /\ sent > 0 => /\ pc = "done"
                   /\ \A k \in DOMAIN sites : written[k].state = "json"
    /\ pc = "done" => sent = (IF Report # <<>> THEN 1 ELSE 0)

C1_Witness == pc = "done" /\ sent = 1 /\ Len(Report) >= 1 /\ text # <<>>

C3_NamesInBoth ==
    (Processed /\ prev.loaded) =>
        /\ \A k \in DOMAIN changed :
              /\ \E ci \in DOMAIN df.rows : df.rows[ci].name = changed[k].name
              /\ \E pj \in DOMAIN prev.rows : prev.rows[pj].name = changed[k].name
              /\ changed[k].cur \in DOMAIN df.rows
              /\ changed[k].old \in DOMAIN prev.rows
        /\ \A ci \in DOMAIN df.rows :
              (\A pj \in DOMAIN prev.rows : prev.rows[pj].name # df.rows[ci].name)
                  => \A k \in DOMAIN changed : changed[k].cur # ci
        /\ \A pj \in DOMAIN prev.rows :
              (\A ci \in DOMAIN df.rows : df.rows[ci].name # prev.rows[pj].name)
                  => \A k \in DOMAIN changed : changed[k].old # pj
        /\ changed # <<>> => (all_changes # <<>> /\ all_changes[Len(all_changes)] = changed)

\* a change record beside a current item of another price that no previous
\* item matches
C3_Witness ==
    /\ Processed
    /\ prev.loaded
    /\ changed # <<>>
    /\ \E ci \in DOMAIN df.rows :
          /\ \A pj \in DOMAIN prev.rows : prev.rows[pj].name # df.rows[ci].name
          /\ \E pj \in DOMAIN prev.rows : prev.rows[pj].price # df.rows[ci].price

C5_FiniteDelta ==
    /\ \A k \in DOMAIN Report : Report[k].delta.kind = "num"
    /\ \A k \in DOMAIN text : text[k].delta.kind = "num"

\* C6: no run is ended by a history file that cannot be read.
C6_LoadNeverFails == err # "ValueError: read_json"

\* C7: the price expression gives a number for every text.
C7_ParseNeverFails == parsed.state # "error"

\* C8: a run in which a page load timed out is not aborted.
C8_TimeoutNeverAborts == ~(pc = "aborted" /\ timedOut)

\* C9: the report lists the records of an earlier site before those of a
\* later site and, within a site, in the order of the items of the current
\* capture (and of the previous items matched to one item); a site without
\* change records adds no frame; the message lists the same records in the
\* same order.
C9_ReportOrder ==
    /\ \A a, b \in DOMAIN Report :
          a < b =>
              \/ SiteIdx(Report[a].site) < SiteIdx(Report[b].site)
              \/ /\ Report[a].site = Report[b].site
                 /\ \/ Report[a].cur < Report[b].cur
                    \/ Report[a].cur = Report[b].cur /\ Report[a].old < Report[b].old
    /\ \A f \in DOMAIN all_changes : all_changes[f] # <<>>
    /\ sent > 0 =>
          /\ Len(text) = Len(Report)
          /\ \A k \in DOMAIN text :
                text[k].site = Report[k].site /\ text[k].name = Report[k].name

\* two sites in the report, and in one site a smaller change listed before a
\* larger one of a later item
C9_Witness ==
    /\ pc = "done"
    /\ sent = 1
    /\ \E a, b \in DOMAIN Report : Report[a].site # Report[b].site
    /\ \E a \in DOMAIN Report :
          /\ a + 1 \in DOMAIN Report
          /\ Report[a].site = Report[a + 1].site
          /\ Report[a].cur < Report[a + 1].cur
          /\ Abs(Report[a].delta.v) < Abs(Report[a + 1].delta.v)

\* C10: the snapshot loaded for a site is the capture the most recent earlier
\* run saved for that site.
C10_OwnSnapshot ==
    prev.loaded =>
        /\ i > 1
        /\ earlier[i - 1].state = "json"
        /\ earlier[i - 1].items = prev.rows

===========================================================================
